---- MODULE Spec2Model ----
(***************************************************************************)
(* Clients of the three auction contracts of pymaker (Flipper, Flapper,    *)
(* Flopper; pymaker/auctions.py) together with the ledger contract the      *)
(* client instance is bound to.  One behaviour follows one client instance *)
(* (`self`) and the auctions of its contract.                               *)
(*                                                                         *)
(* Python values are records [type, value]; a Wad's .value and an          *)
(* Address's .address are both the `value` field.  What a method does is   *)
(* an outcome [value, calls]: the value it returns (or the exception it    *)
(* raises) and the sequence of read calls (`self._contract.call().f(..)`)  *)
(* it sent to the ledger.                                                  *)
(***************************************************************************)
EXTENDS Integers, Sequences, FiniteSets, TLC

\* ---------------------------------------------------------------- bounds
MaxKicks == 1     \* auctions the ledger contract creates in a behaviour
MaxEra == 2       \* ledger time runs over 0..MaxEra
MaxAmount == 2    \* quantities (bid, lot, tab) range over 1..MaxAmount
NumAddrs == 1     \* participant addresses 1..NumAddrs (0 is the null address)
MaxMint == 2      \* GEMs minted on the test chain after the deployment
MaxTravel == 2    \* seconds the test chain's clock is moved forward at most
MaxResets == 2    \* reset() calls of a Deployment in a behaviour

\* ------------------------------------------------- ledger parameters
\* beg is held in hundredths: 50 stands for a minimum increase of 0.50
LedgerBeg == 50
LedgerOne == 100
LedgerTtl == 1
LedgerTau == 2

VARIABLES
    self,         \* class of the client instance: "Flipper", "Flapper", "Flopper"
    ledgerEra,    \* the ledger's current time (what era() reads)
    ledgerKicks,  \* the contract's kicks counter
    ledgerBids,   \* the contract's bids mapping: id -> <<bid, lot, guy, tic, end>>
    ledgerTab,    \* Flipper contract only: id -> target amount
    ret,          \* what the client call of the step just taken gave its caller
    chainGem,     \* test chain of a Deployment: GEMs minted so far
    chainTime,    \* test chain of a Deployment: seconds its clock was moved forward
    snapshots,    \* test chain of a Deployment: the snapshots it holds, oldest first
    snapshot_id,  \* Deployment.snapshot_id
    resets        \* the chain state each reset() call of the Deployment found, in order

ledger == <<ledgerEra, ledgerKicks, ledgerBids, ledgerTab>>
deployment == <<chainGem, chainTime, snapshots, snapshot_id, resets>>
vars == <<self, ledgerEra, ledgerKicks, ledgerBids, ledgerTab, ret,
          chainGem, chainTime, snapshots, snapshot_id, resets>>

Classes == {"Flipper", "Flapper", "Flopper"}
Ids == 1..MaxKicks
Amounts == 1..MaxAmount
Addrs == 1..NumAddrs
\* the account the client's transactions are sent from
our_address == CHOOSE a \in Addrs : \A b \in Addrs : a <= b

\* ------------------------------------------------------- Python values
PyInt(n) == [type |-> "int", value |-> n]
Wad(n) == [type |-> "Wad", value |-> n]
Address(a) == [type |-> "Address", value |-> a]
isinstance(x, t) == x.type = t

\* Arguments a caller may pass.  Well-typed argument lists range over all
\* values of the declared types; a caller's slip puts a value of another
\* type at one position, which the method's assert refuses.
IdArgs == {PyInt(i) : i \in Ids}
WadArgs == {Wad(n) : n \in Amounts}
IntArgs == {PyInt(n) : n \in Amounts}
AddressArgs == {Address(a) : a \in Addrs}

Slip(x) == IF isinstance(x, "int") THEN Wad(x.value) ELSE PyInt(x.value)
Slips(args) == {[args EXCEPT ![k] = Slip(args[k])] : k \in DOMAIN args}

IdArgLists == {<<id>> : id \in IdArgs}
BidArgLists == {<<id, lot, bid>> : id \in IdArgs, lot \in WadArgs, bid \in WadArgs}
KickArgLists(class) ==
    IF class = "Flipper"
    THEN {<<lad, gal, tab, lot, bid>> :
             lad \in AddressArgs, gal \in AddressArgs, tab \in IntArgs,
             lot \in WadArgs, bid \in WadArgs}
    ELSE {<<gal, lot, bid>> : gal \in AddressArgs, lot \in WadArgs, bid \in WadArgs}

\* the lists of S and, for the least list of S, its slips
WithSlips(S) == S \cup UNION {Slips(args) : args \in {x \in S : \A k \in DOMAIN x : x[k].value = 1}}

\* ------------------------------------------------------------ outcomes
Returns(v, calls) == [value |-> v, calls |-> calls]
Raises(e) == [value |-> [type |-> e], calls |-> <<>>]

Transact(class, function_name, parameters) ==
    [type |-> "Transact", origin |-> class,
     function_name |-> function_name, parameters |-> parameters]

Bid(bid, lot, guy, tic, end) ==
    [type |-> "Bid", bid |-> bid, lot |-> lot, guy |-> guy, tic |-> tic, end |-> end]

NoRet == [op |-> "", args |-> <<>>, value |-> [type |-> "NoneType"], calls |-> <<>>]


\* --------------------------------------------- the auction's time rules
Active(rec, now) == now < rec[5] /\ (rec[4] = 0 \/ now < rec[4])
Settleable(rec, now) == ~Active(rec, now)
Created(id) == id >= 1 /\ id <= ledgerKicks
Min(a, b) == IF a <= b THEN a ELSE b

\* ------------------------------------------------- Flipper (collateral)
Flipper_era == Returns(PyInt(ledgerEra), <<"era">>)
Flipper_beg == Returns(Wad(LedgerBeg), <<"beg">>)
Flipper_ttl == Returns(PyInt(LedgerTtl), <<"ttl">>)
Flipper_tau == Returns(PyInt(LedgerTau), <<"tau">>)

Flipper_kick(lad, gal, tab, lot, bid) ==
    IF /\ isinstance(lad, "Address")
       /\ isinstance(gal, "Address")
       /\ isinstance(tab, "int")
       /\ isinstance(lot, "Wad")
       /\ isinstance(bid, "Wad")
    THEN Returns(Transact("Flipper", "kick",
                          <<lad.value, gal.value, tab.value, lot.value, bid.value>>), <<>>)
    ELSE Raises("AssertionError")

\* variant: tend kept to the raise phase (bid below tab, never above it)
Flipper_tend_phased(id, lot, bid) ==
    IF isinstance(id, "int") /\ isinstance(lot, "Wad") /\ isinstance(bid, "Wad")
    THEN IF ledgerBids[id.value][1] < ledgerTab[id.value] /\ bid.value <= ledgerTab[id.value]
         THEN Returns(Transact("Flipper", "tend", <<id.value, lot.value, bid.value>>), <<>>)
         ELSE Raises("AuctionNotActive")
    ELSE Raises("AssertionError")

Flipper_tend(id, lot, bid) ==
    IF isinstance(id, "int") /\ isinstance(lot, "Wad") /\ isinstance(bid, "Wad")
    THEN Returns(Transact("Flipper", "tend", <<id.value, lot.value, bid.value>>), <<>>)
    ELSE Raises("AssertionError")

\* variant: dent checked against the record's bid and lot
Flipper_dent_checked(id, lot, bid) ==
    IF isinstance(id, "int") /\ isinstance(lot, "Wad") /\ isinstance(bid, "Wad")
    THEN IF bid.value # ledgerBids[id.value][1] THEN Raises("BidMismatch")
         ELSE IF lot.value * LedgerOne > ledgerBids[id.value][2] * (LedgerOne - LedgerBeg)
              THEN Raises("LotNotLower")
              ELSE Returns(Transact("Flipper", "dent", <<id.value, lot.value, bid.value>>), <<>>)
    ELSE Raises("AssertionError")

Flipper_dent(id, lot, bid) ==
    IF isinstance(id, "int") /\ isinstance(lot, "Wad") /\ isinstance(bid, "Wad")
    THEN Returns(Transact("Flipper", "dent", <<id.value, lot.value, bid.value>>), <<>>)
    ELSE Raises("AssertionError")

\* variant: deal reads the record before it shapes the request
Flipper_deal_rereads(id) ==
    IF isinstance(id, "int")
    THEN Returns(Transact("Flipper", "deal", <<id.value>>), <<"bids">>)
    ELSE Raises("AssertionError")

Flipper_deal(id) ==
    IF isinstance(id, "int")
    THEN Returns(Transact("Flipper", "deal", <<id.value>>), <<>>)
    ELSE Raises("AssertionError")

\* the methods class Flipper defines
Flipper_methods ==
    {"era", "pie", "gem", "beg", "ttl", "tau", "kick", "tend", "dent", "deal"}

\* ---------------------------------------------------- Flapper (surplus)
Flapper_era == Returns(PyInt(ledgerEra), <<"era">>)
Flapper_beg == Returns(Wad(LedgerBeg), <<"beg">>)
Flapper_ttl == Returns(PyInt(LedgerTtl), <<"ttl">>)
Flapper_tau == Returns(PyInt(LedgerTau), <<"tau">>)
Flapper_kicks == Returns(PyInt(ledgerKicks), <<"kicks">>)

Flapper_bids(id) ==
    IF isinstance(id, "int")
    THEN LET array == ledgerBids[id.value]
         IN  Returns(Bid(Wad(array[1]), Wad(array[2]), Address(array[3]),
                         PyInt(array[4]), PyInt(array[5])), <<"bids">>)
    ELSE Raises("AssertionError")

Flapper_kick(gal, lot, bid) ==
    IF isinstance(gal, "Address") /\ isinstance(lot, "Wad") /\ isinstance(bid, "Wad")
    THEN Returns(Transact("Flapper", "kick", <<gal.value, lot.value, bid.value>>), <<>>)
    ELSE Raises("AssertionError")

\* variant: tend checked against the minimum increase
Flapper_tend_checked(id, lot, bid) ==
    IF isinstance(id, "int") /\ isinstance(lot, "Wad") /\ isinstance(bid, "Wad")
    THEN IF bid.value * LedgerOne >= ledgerBids[id.value][1] * (LedgerOne + LedgerBeg)
         THEN Returns(Transact("Flapper", "tend", <<id.value, lot.value, bid.value>>), <<>>)
         ELSE Raises("BidTooLow")
    ELSE Raises("AssertionError")

\* variant: tend shaped as a dent request
Flapper_tend_as_dent(id, lot, bid) ==
    IF isinstance(id, "int") /\ isinstance(lot, "Wad") /\ isinstance(bid, "Wad")
    THEN Returns(Transact("Flapper", "dent", <<id.value, lot.value, bid.value>>), <<>>)
    ELSE Raises("AssertionError")

Flapper_tend(id, lot, bid) ==
    IF isinstance(id, "int") /\ isinstance(lot, "Wad") /\ isinstance(bid, "Wad")
    THEN Returns(Transact("Flapper", "tend", <<id.value, lot.value, bid.value>>), <<>>)
    ELSE Raises("AssertionError")

\* variant: deal refused while the auction is active
Flapper_deal_checked(id) ==
    IF isinstance(id, "int")
    THEN IF Active(ledgerBids[id.value], ledgerEra)
         THEN Raises("AuctionStillActive")
         ELSE Returns(Transact("Flapper", "deal", <<id.value>>), <<>>)
    ELSE Raises("AssertionError")

Flapper_deal(id) ==
    IF isinstance(id, "int")
    THEN Returns(Transact("Flapper", "deal", <<id.value>>), <<>>)
    ELSE Raises("AssertionError")

\* the methods class Flapper defines
Flapper_methods ==
    {"approve", "era", "pie", "gem", "beg", "ttl", "tau", "kicks", "bids",
     "kick", "tend", "deal"}

\* ------------------------------------------------------- Flopper (debt)
Flopper_era == Returns(PyInt(ledgerEra), <<"era">>)
Flopper_beg == Returns(Wad(LedgerBeg), <<"beg">>)
Flopper_ttl == Returns(PyInt(LedgerTtl), <<"ttl">>)
Flopper_tau == Returns(PyInt(LedgerTau), <<"tau">>)
Flopper_kicks == Returns(PyInt(ledgerKicks), <<"kicks">>)

\* variant: bids decodes the lot before the bid
Flopper_bids_lot_first(id) ==
    IF isinstance(id, "int")
    THEN LET array == ledgerBids[id.value]
         IN  Returns(Bid(Wad(array[2]), Wad(array[1]), Address(array[3]),
                         PyInt(array[4]), PyInt(array[5])), <<"bids">>)
    ELSE Raises("AssertionError")

Flopper_bids(id) ==
    IF isinstance(id, "int")
    THEN LET array == ledgerBids[id.value]
         IN  Returns(Bid(Wad(array[1]), Wad(array[2]), Address(array[3]),
                         PyInt(array[4]), PyInt(array[5])), <<"bids">>)
    ELSE Raises("AssertionError")

\* variant: kick passes the bid before the lot
Flopper_kick_bid_first(gal, lot, bid) ==
    IF isinstance(gal, "Address") /\ isinstance(lot, "Wad") /\ isinstance(bid, "Wad")
    THEN Returns(Transact("Flopper", "kick", <<gal.value, bid.value, lot.value>>), <<>>)
    ELSE Raises("AssertionError")

Flopper_kick(gal, lot, bid) ==
    IF isinstance(gal, "Address") /\ isinstance(lot, "Wad") /\ isinstance(bid, "Wad")
    THEN Returns(Transact("Flopper", "kick", <<gal.value, lot.value, bid.value>>), <<>>)
    ELSE Raises("AssertionError")

\* variant: dent refused once the auction is no longer active
Flopper_dent_timed(id, lot, bid) ==
    IF isinstance(id, "int") /\ isinstance(lot, "Wad") /\ isinstance(bid, "Wad")
    THEN IF Active(ledgerBids[id.value], ledgerEra)
         THEN Returns(Transact("Flopper", "dent", <<id.value, lot.value, bid.value>>), <<"era">>)
         ELSE Raises("AuctionNotActive")
    ELSE Raises("AssertionError")

Flopper_dent(id, lot, bid) ==
    IF isinstance(id, "int") /\ isinstance(lot, "Wad") /\ isinstance(bid, "Wad")
    THEN Returns(Transact("Flopper", "dent", <<id.value, lot.value, bid.value>>), <<>>)
    ELSE Raises("AssertionError")

Flopper_deal(id) ==
    IF isinstance(id, "int")
    THEN Returns(Transact("Flopper", "deal", <<id.value>>), <<>>)
    ELSE Raises("AssertionError")

\* the methods class Flopper defines
Flopper_methods ==
    {"approve", "era", "pie", "gem", "beg", "ttl", "tau", "kicks", "bids",
     "kick", "dent", "deal"}

\* ------------------------------------------------------ method lookup
Methods(class) ==
    CASE class = "Flipper" -> Flipper_methods
      [] class = "Flapper" -> Flapper_methods
      [] class = "Flopper" -> Flopper_methods

\* getattr(client, op)(*args) for a client of each class, op being a
\* method the class defines.
Flipper_call(op, args) ==
    CASE op = "era" -> Flipper_era
      [] op = "beg" -> Flipper_beg
      [] op = "ttl" -> Flipper_ttl
      [] op = "tau" -> Flipper_tau
      [] op = "kick" -> Flipper_kick(args[1], args[2], args[3], args[4], args[5])
      [] op = "tend" -> Flipper_tend(args[1], args[2], args[3])
      [] op = "dent" -> Flipper_dent(args[1], args[2], args[3])
      [] op = "deal" -> Flipper_deal(args[1])

Flapper_call(op, args) ==
    CASE op = "era" -> Flapper_era
      [] op = "beg" -> Flapper_beg
      [] op = "ttl" -> Flapper_ttl
      [] op = "tau" -> Flapper_tau
      [] op = "kicks" -> Flapper_kicks
      [] op = "bids" -> Flapper_bids(args[1])
      [] op = "kick" -> Flapper_kick(args[1], args[2], args[3])
      [] op = "tend" -> Flapper_tend(args[1], args[2], args[3])
      [] op = "deal" -> Flapper_deal(args[1])

Flopper_call(op, args) ==
    CASE op = "era" -> Flopper_era
      [] op = "beg" -> Flopper_beg
      [] op = "ttl" -> Flopper_ttl
      [] op = "tau" -> Flopper_tau
      [] op = "kicks" -> Flopper_kicks
      [] op = "bids" -> Flopper_bids(args[1])
      [] op = "kick" -> Flopper_kick(args[1], args[2], args[3])
      [] op = "dent" -> Flopper_dent(args[1], args[2], args[3])
      [] op = "deal" -> Flopper_deal(args[1])

\* `client.op(*args)` on an instance of class: the class's method, or an
\* AttributeError when the class defines no method of that name.
Invoke(class, op, args) ==
    IF op \notin Methods(class) THEN Raises("AttributeError")
    ELSE CASE class = "Flipper" -> Flipper_call(op, args)
           [] class = "Flapper" -> Flapper_call(op, args)
           [] class = "Flopper" -> Flopper_call(op, args)

\* The argument lists tried for op: none when the class has no such method
\* (the attribute lookup fails before any argument is passed).
ArgLists(op, S) == IF op \in Methods(self) THEN WithSlips(S) ELSE {<<>>}

\* What a client call hands its caller.
Called(op, args) ==
    LET out == Invoke(self, op, args)
    IN  [op |-> op, args |-> args, value |-> out.value, calls |-> out.calls]

\* ------------------------------------------------------------ the ledger
\* The auction contract behind the client: its rules for accepting a
\* submitted request.  A request it refuses leaves its state unchanged.
LedgerState(kicks, bids, tab) == [kicks |-> kicks, bids |-> bids, tab |-> tab]
LedgerSame == LedgerState(ledgerKicks, ledgerBids, ledgerTab)

Ledger_kick(class, p) ==
    LET id  == ledgerKicks + 1
        tab == IF class = "Flipper" THEN p[3] ELSE 0
        lot == IF class = "Flipper" THEN p[4] ELSE p[2]
        bid == IF class = "Flipper" THEN p[5] ELSE p[3]
    IN  IF /\ ledgerKicks < MaxKicks
           /\ lot > 0 /\ bid > 0
           /\ (class = "Flipper" => tab > 0 /\ bid <= tab)
        THEN LedgerState(id,
                         [ledgerBids EXCEPT ![id] = <<bid, lot, 0, 0, ledgerEra + LedgerTau>>],
                         [ledgerTab EXCEPT ![id] = tab])
        ELSE LedgerSame

Ledger_tend(class, p, sender) ==
    LET id == p[1]  lot == p[2]  bid == p[3]
    IN  IF Created(id)
        THEN LET rec == ledgerBids[id]
             IN  IF /\ class \in {"Flipper", "Flapper"}
                    /\ Active(rec, ledgerEra)
                    /\ lot = rec[2]
                    /\ bid * LedgerOne >= rec[1] * (LedgerOne + LedgerBeg)
                    /\ (class = "Flipper" => rec[1] < ledgerTab[id] /\ bid <= ledgerTab[id])
                 THEN LedgerState(ledgerKicks,
                          [ledgerBids EXCEPT ![id] =
                              <<bid, lot, sender, Min(ledgerEra + LedgerTtl, rec[5]), rec[5]>>],
                          ledgerTab)
                 ELSE LedgerSame
        ELSE LedgerSame

Ledger_dent(class, p, sender) ==
    LET id == p[1]  lot == p[2]  bid == p[3]
    IN  IF Created(id)
        THEN LET rec == ledgerBids[id]
             IN  IF /\ class \in {"Flipper", "Flopper"}
                    /\ Active(rec, ledgerEra)
                    /\ bid = rec[1]
                    /\ lot * LedgerOne <= rec[2] * (LedgerOne - LedgerBeg)
                    /\ (class = "Flipper" => rec[1] = ledgerTab[id])
                 THEN LedgerState(ledgerKicks,
                          [ledgerBids EXCEPT ![id] =
                              <<bid, lot, sender, Min(ledgerEra + LedgerTtl, rec[5]), rec[5]>>],
                          ledgerTab)
                 ELSE LedgerSame
        ELSE LedgerSame

Ledger_deal(p) ==
    LET id == p[1]
    IN  IF Created(id)
        THEN LET rec == ledgerBids[id]
             IN  IF Settleable(rec, ledgerEra)
                 THEN LedgerState(ledgerKicks,
                          [ledgerBids EXCEPT ![id] = <<rec[1], rec[2], 0, rec[4], rec[5]>>],
                          ledgerTab)
                 ELSE LedgerSame
        ELSE LedgerSame

Ledger_execute(tx, sender) ==
    CASE tx.function_name = "kick" -> Ledger_kick(tx.origin, tx.parameters)
      [] tx.function_name = "tend" -> Ledger_tend(tx.origin, tx.parameters, sender)
      [] tx.function_name = "dent" -> Ledger_dent(tx.origin, tx.parameters, sender)
      [] tx.function_name = "deal" -> Ledger_deal(tx.parameters)
      [] OTHER -> LedgerSame

\* ------------------------------------------------------------- actions
\* ------------------------------------------------- the test deployment
\* GEMs minted by the end of Deployment.__init__
InitialGems == 1000000

\* The state of the test chain a snapshot captures and a revert restores.
ChainState(gem, time) == [gem |-> gem, time |-> time]
ChainNow == ChainState(chainGem, chainTime)

\* request "evm_snapshot": the chain keeps its current state as a new
\* snapshot and answers with the snapshot's id, its position.
evm_snapshot(snaps, state) ==
    [snapshots |-> Append(snaps, state), result |-> Len(snaps) + 1]

\* request "evm_revert" [id]: the chain goes back to snapshot id and drops
\* that snapshot and every later one; an id it does not hold changes nothing.
evm_revert(snaps, state, id) ==
    IF id >= 1 /\ id <= Len(snaps)
    THEN [snapshots |-> SubSeq(snaps, 1, id - 1), state |-> snaps[id], result |-> TRUE]
    ELSE [snapshots |-> snaps, state |-> state, result |-> FALSE]

\* request "evm_increaseTime" [seconds]
evm_increaseTime(state, seconds) == ChainState(state.gem, state.time + seconds)

\* the chain and the Deployment's fields at the end of Deployment.__init__
Deployment_init ==
    LET snap == evm_snapshot(<<>>, ChainState(InitialGems, 0))
    IN  /\ chainGem = InitialGems
        /\ chainTime = 0
        /\ snapshots = snap.snapshots
        /\ snapshot_id = snap.result
        /\ resets = <<>>

Init ==
    /\ self \in Classes
    /\ ledgerEra = 0
    /\ ledgerKicks = 0
    /\ ledgerBids = [i \in Ids |-> <<0, 0, 0, 0, 0>>]
    /\ ledgerTab = [i \in Ids |-> 0]
    /\ ret = NoRet
    /\ Deployment_init

\* A client call reads the ledger at most; it never changes it.  The caller
\* makes its next call once it is done with what the last one returned.
Era ==
    /\ ret = NoRet
    /\ ret' = Called("era", <<>>)
    /\ UNCHANGED <<self, deployment, ledgerEra, ledgerKicks, ledgerBids, ledgerTab>>

Beg ==
    /\ ret = NoRet
    /\ ret' = Called("beg", <<>>)
    /\ UNCHANGED <<self, deployment, ledgerEra, ledgerKicks, ledgerBids, ledgerTab>>

Ttl ==
    /\ ret = NoRet
    /\ ret' = Called("ttl", <<>>)
    /\ UNCHANGED <<self, deployment, ledgerEra, ledgerKicks, ledgerBids, ledgerTab>>

Tau ==
    /\ ret = NoRet
    /\ ret' = Called("tau", <<>>)
    /\ UNCHANGED <<self, deployment, ledgerEra, ledgerKicks, ledgerBids, ledgerTab>>

Kicks ==
    /\ ret = NoRet
    /\ ret' = Called("kicks", <<>>)
    /\ UNCHANGED <<self, deployment, ledgerEra, ledgerKicks, ledgerBids, ledgerTab>>

Bids ==
    /\ ret = NoRet
    /\ \E args \in ArgLists("bids", IdArgLists) : ret' = Called("bids", args)
    /\ UNCHANGED <<self, deployment, ledgerEra, ledgerKicks, ledgerBids, ledgerTab>>

Kick ==
    /\ ret = NoRet
    /\ \E args \in ArgLists("kick", KickArgLists(self)) : ret' = Called("kick", args)
    /\ UNCHANGED <<self, deployment, ledgerEra, ledgerKicks, ledgerBids, ledgerTab>>

Tend ==
    /\ ret = NoRet
    /\ \E args \in ArgLists("tend", BidArgLists) : ret' = Called("tend", args)
    /\ UNCHANGED <<self, deployment, ledgerEra, ledgerKicks, ledgerBids, ledgerTab>>

Dent ==
    /\ ret = NoRet
    /\ \E args \in ArgLists("dent", BidArgLists) : ret' = Called("dent", args)
    /\ UNCHANGED <<self, deployment, ledgerEra, ledgerKicks, ledgerBids, ledgerTab>>

Deal ==
    /\ ret = NoRet
    /\ \E args \in ArgLists("deal", IdArgLists) : ret' = Called("deal", args)
    /\ UNCHANGED <<self, deployment, ledgerEra, ledgerKicks, ledgerBids, ledgerTab>>

\* The caller is done with the returned value without submitting anything
\* (an unsubmitted Transact is simply dropped).
Drop ==
    /\ ret # NoRet
    /\ ret' = NoRet
    /\ UNCHANGED <<self, deployment, ledgerEra, ledgerKicks, ledgerBids, ledgerTab>>

\* The holder of the Transact just returned submits it from the client's
\* account; the ledger executes it.
Transact_transact ==
    /\ ret.value.type = "Transact"
    /\ LET new == Ledger_execute(ret.value, our_address)
       IN  /\ ledgerKicks' = new.kicks
           /\ ledgerBids' = new.bids
           /\ ledgerTab' = new.tab
    /\ ret' = NoRet
    /\ UNCHANGED <<self, deployment, ledgerEra>>

\* Ledger time advances.
Tick ==
    /\ ledgerEra < MaxEra
    /\ ledgerEra' = ledgerEra + 1
    /\ ret' = NoRet
    /\ UNCHANGED <<self, deployment, ledgerKicks, ledgerBids, ledgerTab>>

Next ==
    \/ Era \/ Beg \/ Ttl \/ Tau \/ Kicks \/ Bids
    \/ Kick \/ Tend \/ Dent \/ Deal
    \/ Drop
    \/ Transact_transact
    \/ Tick

Spec == Init /\ [][Next]_vars

\* ------------------------------------------ operations on a Deployment
DeploymentCall(op, args, value, calls) ==
    [op |-> op, args |-> args, value |-> value, calls |-> calls]
None == [type |-> "NoneType"]
ClientSame == UNCHANGED <<self, ledgerEra, ledgerKicks, ledgerBids, ledgerTab>>

\* A transaction on the test chain: gem.mint(Wad(n)).transact()
Deployment_mint ==
    /\ \E n \in 1..MaxMint :
          /\ chainGem + n <= InitialGems + MaxMint
          /\ chainGem' = chainGem + n
          /\ ret' = DeploymentCall("mint", <<Wad(n)>>, None, <<>>)
    /\ UNCHANGED <<chainTime, snapshots, snapshot_id, resets>>
    /\ ClientSame

Deployment_time_travel_by ==
    /\ \E seconds \in {PyInt(n) : n \in 1..MaxTravel} \cup {Wad(1)} :
          IF isinstance(seconds, "int")
          THEN /\ chainTime + seconds.value <= MaxTravel
               /\ chainTime' = evm_increaseTime(ChainNow, seconds.value).time
               /\ ret' = DeploymentCall("time_travel_by", <<seconds>>, None,
                                        <<"evm_increaseTime">>)
          ELSE /\ chainTime' = chainTime
               /\ ret' = DeploymentCall("time_travel_by", <<seconds>>,
                                        [type |-> "AssertionError"], <<>>)
    /\ UNCHANGED <<chainGem, snapshots, snapshot_id, resets>>
    /\ ClientSame

\* variant: reset reverts to the snapshot and takes no new one
Deployment_reset_no_snapshot ==
    /\ Len(resets) < MaxResets
    /\ LET rev == evm_revert(snapshots, ChainNow, snapshot_id)
       IN  /\ chainGem' = rev.state.gem
           /\ chainTime' = rev.state.time
           /\ snapshots' = rev.snapshots
           /\ snapshot_id' = snapshot_id
    /\ resets' = Append(resets, ChainNow)
    /\ ret' = DeploymentCall("reset", <<>>, None, <<"evm_revert">>)
    /\ ClientSame

Deployment_reset ==
    /\ Len(resets) < MaxResets
    /\ LET rev  == evm_revert(snapshots, ChainNow, snapshot_id)
           snap == evm_snapshot(rev.snapshots, rev.state)
       IN  /\ chainGem' = rev.state.gem
           /\ chainTime' = rev.state.time
           /\ snapshots' = snap.snapshots
           /\ snapshot_id' = snap.result
    /\ resets' = Append(resets, ChainNow)
    /\ ret' = DeploymentCall("reset", <<>>, None, <<"evm_revert", "evm_snapshot">>)
    /\ ClientSame

DeploymentNext ==
    \/ Deployment_mint
    \/ Deployment_time_travel_by
    \/ Deployment_reset

DeploymentSpec == Init /\ [][DeploymentNext]_vars

\* ====================================================================
\* Properties
\* ====================================================================
\* the call just made was op(id, lot, bid) with arguments of the declared
\* types, on a client whose class defines op
BidCall(op) ==
    /\ ret.op = op
    /\ op \in Methods(self)
    /\ isinstance(ret.args[1], "int")
    /\ isinstance(ret.args[2], "Wad")
    /\ isinstance(ret.args[3], "Wad")

\* the call just made was deal(id) with an int id
DealCall == ret.op = "deal" /\ isinstance(ret.args[1], "int")

CallId == ret.args[1].value
CallLot == ret.args[2].value
CallBid == ret.args[3].value
CallRec == ledgerBids[CallId]
IsTransact == ret.value.type = "Transact"
MeetsBeg(bid, cur) == bid * LedgerOne >= cur * (LedgerOne + LedgerBeg)
LowersLot(lot, cur) == lot * LedgerOne <= cur * (LedgerOne - LedgerBeg)

MutatingCall == ret.op \in {"tend", "dent", "deal"} /\ ret.op \in Methods(self)
ReadsRecord == \E k \in DOMAIN ret.calls : ret.calls[k] = "bids"

ArgValues == [k \in DOMAIN ret.args |-> ret.args[k].value]

\* C7 (as stated): every PendingTransaction carries the function name and
\* ordered argument list tend -> [id, lot, bid]; dent -> [id, lot, bid];
\* deal -> [id]; collateral kick -> [lad, gal, tab, lot, bid]; surplus kick
\* -> [gal, lot, bid]; debt kick -> [beneficiary, fixedBid, initialLot].
C7_ArgumentsWithDebtBidFirst ==
    IsTransact =>
        /\ ret.value.function_name = ret.op
        /\ ret.value.parameters =
              IF self = "Flopper" /\ ret.op = "kick"
              THEN <<ret.args[1].value, ret.args[3].value, ret.args[2].value>>
              ELSE ArgValues

\* C7 (amended): as stated, except that the debt kick carries
\* [beneficiary, initialLot, fixedBid]: the lot precedes the bid, as in the
\* surplus kick.
C7_ArgumentsInCallOrder ==
    IsTransact =>
        /\ ret.value.function_name = ret.op
        /\ ret.value.origin = self
        /\ ret.op \in {"tend", "dent"} =>
              ret.value.parameters = <<CallId, CallLot, CallBid>>
        /\ ret.op = "deal" => ret.value.parameters = <<CallId>>
        /\ (ret.op = "kick" /\ self = "Flipper") =>
              ret.value.parameters = <<ret.args[1].value, ret.args[2].value,
                                       ret.args[3].value, ret.args[4].value,
                                       ret.args[5].value>>
        /\ (ret.op = "kick" /\ self # "Flipper") =>
              ret.value.parameters = <<ret.args[1].value, ret.args[2].value,
                                       ret.args[3].value>>

C7_Witness ==
    /\ self = "Flopper" /\ ret.op = "kick" /\ IsTransact
    /\ ret.args[2].value # ret.args[3].value
    /\ ret.value.parameters = <<ret.args[1].value, ret.args[2].value, ret.args[3].value>>

\* C8: each of the three clients offers the read operations parameters
\* (beg, ttl, tau), record(id) (bids) and auctionCount (kicks); the record of
\* a collateral auction can be read through the collateral client.
C8_AllClientsShareReads ==
    ledgerKicks > 0 =>
        /\ ret.op \in {"beg", "ttl", "tau", "kicks", "bids"} =>
              ret.value.type # "AttributeError"
        /\ ret.op = "bids" => ret.value.type \in {"Bid", "AssertionError"}
        /\ ret.op = "kicks" => ret.value.type = "int"

\* the function names a client of the class can put in a request
Requests(class) ==
    CASE class = "Flipper" -> {"kick", "tend", "dent", "deal"}
      [] class = "Flapper" -> {"kick", "tend", "deal"}
      [] class = "Flopper" -> {"kick", "dent", "deal"}

C9_Requests ==
    /\ IsTransact => ret.value.function_name \in Requests(self)
    /\ BidCall("tend") => (IsTransact /\ self \in {"Flipper", "Flapper"})
    /\ BidCall("dent") => (IsTransact /\ self \in {"Flipper", "Flopper"})
    /\ (self = "Flapper" /\ ret.op = "dent") => ret.value.type = "AttributeError"
    /\ (self = "Flopper" /\ ret.op = "tend") => ret.value.type = "AttributeError"

C9_LedgerStep ==
    \A id \in Ids : Created(id) =>
        /\ self = "Flapper" => ledgerBids'[id][2] = ledgerBids[id][2]
        /\ self = "Flopper" => ledgerBids'[id][1] = ledgerBids[id][1]

\* C9: the surplus client can request tend but never dent, and no step
\* changes a surplus auction's lot after creation; the debt client can
\* request dent but never tend, and no step changes a debt auction's bid
\* after creation; only the collateral client can request both.
C9_VariantTransitions == []C9_Requests /\ [][C9_LedgerStep]_vars

C9_Witness ==
    /\ self = "Flapper" /\ ret.op = "dent"
    /\ ret.value.type = "AttributeError"
    /\ \E id \in Ids : Created(id) /\ ledgerBids[id][3] # 0
                        /\ ledgerBids[id][1] # ledgerBids[id][2]

\* the call just made was bids(id) with an int id, on a class defining bids
BidsCall ==
    ret.op = "bids" /\ "bids" \in Methods(self) /\ isinstance(ret.args[1], "int")

C10_Positional ==
    BidsCall =>
        /\ ret.value.type = "Bid"
        /\ ret.value.bid = Wad(CallRec[1])
        /\ ret.value.lot = Wad(CallRec[2])
        /\ ret.value.guy = Address(CallRec[3])
        /\ ret.value.tic = PyInt(CallRec[4])
        /\ ret.value.end = PyInt(CallRec[5])
        /\ ret.calls = <<"bids">>

C10_ReadOnly == ret'.op = "bids" => ledger' = ledger

\* C10: bids(id) returns the ledger's five values for the id, mapped by
\* position to (bid, lot, guy, tic, end), and a read leaves the ledger as it
\* was; reads of one id with no ledger change between them therefore agree
\* field for field.
C10_BidsReadsLedger == []C10_Positional /\ [][C10_ReadOnly]_vars

C10_Witness ==
    /\ BidsCall /\ Created(CallId)
    /\ CallRec[1] # CallRec[2]
    /\ CallRec[3] # 0
    /\ CallRec[4] # CallRec[5]
    /\ ret.value.type = "Bid"

\* C11: after any sequence of ledger mutations and time_travel_by calls
\* followed by reset(), the test chain's state equals the state captured at
\* the end of Deployment construction, for every reset() of the behaviour,
\* and the Deployment again holds a snapshot of that state.
C11_ResetRestoresDeployment ==
    ret.op = "reset" =>
        /\ ChainNow = ChainState(InitialGems, 0)
        /\ snapshot_id >= 1 /\ snapshot_id <= Len(snapshots)
        /\ snapshots[snapshot_id] = ChainState(InitialGems, 0)

C11_Witness ==
    /\ ret.op = "reset"
    /\ Len(resets) = 2
    /\ \A k \in 1..2 : resets[k].gem > InitialGems /\ resets[k].time > 0
    /\ ChainNow = ChainState(InitialGems, 0)

====
